---- MODULE Spec2Model ----
(***************************************************************************)
(* Tournament state machine of football-tournament-scheduler (server.js):  *)
(* round-robin schedule generation, the result ledger with its standings   *)
(* recompute, and the knockout bracket seeding.                            *)
(*                                                                         *)
(* JavaScript values are represented as follows.                           *)
(*   - a string is a TLA+ string; "" is the empty string and also stands   *)
(*     for a missing (undefined) property, both being falsy;               *)
(*   - null in a place that otherwise holds a string is JsNull;            *)
(*   - a nullable number or object is a sequence of length at most one:    *)
(*     <<>> is null / NaN, <<v>> is the value v;                           *)
(*   - the text of a score as it arrives in a payload (String(value)) is   *)
(*     a sequence of one-character strings;                                *)
(*   - an object used as a map (the scoreboard) keeps its key insertion    *)
(*     order: [keys |-> sequence of names, rec |-> function on the names]. *)
(***************************************************************************)
EXTENDS Integers, Sequences, FiniteSets, TLC

\* ---------------------------------------------------------------- bounds

\* Longest team list handed to generateSchedule in SpecSchedule.
MaxTeams == 5

\* ------------------------------------------------------------- JS values

JsNull == "<null>"

None == <<>>

Some(v) == <<v>>

Truthy(s) == s # JsNull /\ s # ""

Range(s) == { s[i] : i \in 1..Len(s) }

RECURSIVE SumSeq(_)
SumSeq(s) == IF s = <<>> THEN 0 ELSE Head(s) + SumSeq(Tail(s))

\* ---------------------------------------------------------------- strings

\* Code points of the strings that occur as team names in the model.
\* "E_nfc" is the one-code-point string U+00C9, "E_nfd" is U+0045 U+0301:
\* two different strings that are canonically equivalent.
CodePoints ==
  [ s \in {"", " ", "A", " A", "B", "C", "Y", "Z", "E_nfc", "E_nfd"} |->
      CASE s = ""      -> <<>>
        [] s = " "     -> <<32>>
        [] s = "A"     -> <<65>>
        [] s = " A"    -> <<32, 65>>
        [] s = "B"     -> <<66>>
        [] s = "C"     -> <<67>>
        [] s = "Y"     -> <<89>>
        [] s = "Z"     -> <<90>>
        [] s = "E_nfc" -> <<201>>
        [] s = "E_nfd" -> <<69, 769>> ]

KnownStrings == DOMAIN CodePoints

FromCodePoints(cps) == CHOOSE s \in KnownStrings : CodePoints[s] = cps

IsWhiteSpace(cp) == cp \in {9, 10, 11, 12, 13, 32, 160}

RECURSIVE TrimStart(_)
TrimStart(cps) ==
  IF cps # <<>> /\ IsWhiteSpace(Head(cps)) THEN TrimStart(Tail(cps)) ELSE cps

RECURSIVE TrimEnd(_)
TrimEnd(cps) ==
  IF cps # <<>> /\ IsWhiteSpace(cps[Len(cps)])
  THEN TrimEnd(SubSeq(cps, 1, Len(cps) - 1)) ELSE cps

\* String.prototype.trim
Trim(s) == FromCodePoints(TrimEnd(TrimStart(CodePoints[s])))

\* Canonical decomposition of a code point (the ones of the model).
Decompose(cp) == IF cp = 201 THEN <<69, 769>> ELSE <<cp>>

RECURSIVE Nfd(_)
Nfd(cps) == IF cps = <<>> THEN <<>> ELSE Decompose(Head(cps)) \o Nfd(Tail(cps))

RECURSIVE CompareSeq(_, _)
CompareSeq(a, b) ==
  IF a = <<>> /\ b = <<>> THEN 0
  ELSE IF a = <<>> THEN -1
  ELSE IF b = <<>> THEN 1
  ELSE IF Head(a) < Head(b) THEN -1
  ELSE IF Head(a) > Head(b) THEN 1
  ELSE CompareSeq(Tail(a), Tail(b))

\* String.prototype.localeCompare: a collation that honours canonical
\* equivalence (ECMA-262), so it compares the decomposed strings; on the
\* upper-case letters of the model the collation order is the letter order.
localeCompare(a, b) == CompareSeq(Nfd(CodePoints[a]), Nfd(CodePoints[b]))

\* --------------------------------------------------------------- parseInt

Digits == <<"0", "1", "2", "3", "4", "5", "6", "7", "8", "9">>

IsDigit(c) == c \in Range(Digits)

DigitValue(c) == (CHOOSE i \in 1..10 : Digits[i] = c) - 1

RECURSIVE SkipSpaces(_)
SkipSpaces(t) == IF t # <<>> /\ Head(t) = " " THEN SkipSpaces(Tail(t)) ELSE t

RECURSIVE DigitPrefix(_)
DigitPrefix(t) ==
  IF t # <<>> /\ IsDigit(Head(t)) THEN <<Head(t)>> \o DigitPrefix(Tail(t)) ELSE <<>>

RECURSIVE DecimalValue(_)
DecimalValue(ds) ==
  IF ds = <<>> THEN 0
  ELSE 10 * DecimalValue(SubSeq(ds, 1, Len(ds) - 1)) + DigitValue(ds[Len(ds)])

\* parseInt(text, 10): leading white space, an optional sign, then the
\* longest prefix of digits; NaN (None) when that prefix is empty.
parseInt(text) ==
  LET t      == SkipSpaces(text)
      signed == t # <<>> /\ Head(t) \in {"-", "+"}
      u      == IF signed THEN Tail(t) ELSE t
      ds     == DigitPrefix(u)
  IN  IF ds = <<>> THEN None
      ELSE IF signed /\ Head(t) = "-" THEN Some(0 - DecimalValue(ds))
      ELSE Some(DecimalValue(ds))

isNaN(n) == n = None

\* ------------------------------------------------------ generateSchedule

\* participants.pop(); participants.splice(1, 0, last)
RotateNone(p) == p

Rotate(p) ==
  LET last == p[Len(p)]
      rest == SubSeq(p, 1, Len(p) - 1)
  IN  <<rest[1], last>> \o Tail(rest)

FixtureId(r, i) == "r" \o ToString(r) \o "-m" \o ToString(i)

\* The inner loop of generateSchedule from index i on: the matches of round r.
RECURSIVE RoundMatches(_, _, _)
RoundMatches(p, r, i) ==
  LET n == Len(p) IN
  IF 2 * i >= n THEN <<>>
  ELSE LET home == p[i + 1]
           away == p[n - i]
       IN  (IF Truthy(home) /\ Truthy(away)
            THEN << [id |-> FixtureId(r, i), home |-> home, away |-> away] >>
            ELSE <<>>)
           \o RoundMatches(p, r, i + 1)

RoundCountOneMore(n) == n

\* The bound of the outer loop: r < n - 1
RoundCount(n) == n - 1

\* The outer loop of generateSchedule from round r on.
RECURSIVE ScheduleRounds(_, _)
ScheduleRounds(p, r) ==
  IF r >= RoundCount(Len(p)) THEN <<>>
  ELSE << RoundMatches(p, r, 0) >> \o ScheduleRounds(Rotate(p), r + 1)

generateSchedule(teams) ==
  LET participants == IF Len(teams) % 2 = 1 THEN Append(teams, JsNull) ELSE teams
  IN  ScheduleRounds(participants, 0)

\* All fixtures of a schedule, round after round.
RECURSIVE Flatten(_)
Flatten(rounds) == IF rounds = <<>> THEN <<>> ELSE Head(rounds) \o Flatten(Tail(rounds))

\* ------------------------------------------------------------- scoreboard

ZeroRecord(logo) ==
  [ played |-> 0, wins |-> 0, draws |-> 0, losses |-> 0,
    goalsFor |-> 0, goalsAgainst |-> 0, goalDifference |-> 0,
    points |-> 0, logo |-> logo ]

EmptyObject == [ keys |-> <<>>, rec |-> <<>> ]

HasKey(obj, k) == k \in Range(obj.keys)

\* obj[k] = v on an object: a new key goes last, an old key keeps its place.
SetKey(obj, k, v) ==
  [ keys |-> IF HasKey(obj, k) THEN obj.keys ELSE Append(obj.keys, k),
    rec  |-> [ x \in Range(obj.keys) \cup {k} |-> IF x = k THEN v ELSE obj.rec[x] ] ]

\* logos[team] || null
LogoOf(logos, team) ==
  IF HasKey(logos, team) /\ Truthy(logos.rec[team]) THEN logos.rec[team] ELSE JsNull

RECURSIVE createInitialScoreboardFrom(_, _, _)
createInitialScoreboardFrom(scoreboard, teams, logos) ==
  IF teams = <<>> THEN scoreboard
  ELSE createInitialScoreboardFrom(
         SetKey(scoreboard, Head(teams), ZeroRecord(LogoOf(logos, Head(teams)))),
         Tail(teams), logos)

createInitialScoreboard(teams, logos) ==
  createInitialScoreboardFrom(EmptyObject, teams, logos)

\* ensureTeam of applyMatchResult
ensureTeam(scoreboard, team) ==
  IF HasKey(scoreboard, team) THEN scoreboard
  ELSE SetKey(scoreboard, team, ZeroRecord(JsNull))

BumpAssign(scoreboard, team, field, d) ==
  [ scoreboard EXCEPT !.rec[team][field] = d ]

\* scoreboard[team].field += d
Bump(scoreboard, team, field, d) ==
  [ scoreboard EXCEPT !.rec[team][field] = @ + d ]

WinPoints == 3

DrawPoints == 1

\* The outcome branch of applyMatchResult (lines 239-252).
AwardOutcomeNoPoints(sb, home, away, homeScore, awayScore) ==
  IF homeScore > awayScore
  THEN Bump(Bump(sb, home, "wins", 1), away, "losses", 1)
  ELSE IF homeScore < awayScore
  THEN Bump(Bump(sb, away, "wins", 1), home, "losses", 1)
  ELSE Bump(Bump(sb, home, "draws", 1), away, "draws", 1)

AwardOutcome(sb, home, away, homeScore, awayScore) ==
  IF homeScore > awayScore
  THEN Bump(Bump(Bump(sb, home, "wins", 1), away, "losses", 1), home, "points", WinPoints)
  ELSE IF homeScore < awayScore
  THEN Bump(Bump(Bump(sb, away, "wins", 1), home, "losses", 1), away, "points", WinPoints)
  ELSE Bump(Bump(Bump(Bump(sb, home, "draws", 1), away, "draws", 1),
                 home, "points", DrawPoints), away, "points", DrawPoints)

applyMatchResult(scoreboard, home, away, homeScore, awayScore) ==
  LET s0 == ensureTeam(ensureTeam(scoreboard, home), away)
      s1 == Bump(Bump(s0, home, "played", 1), away, "played", 1)
      s2 == Bump(Bump(s1, home, "goalsFor", homeScore), home, "goalsAgainst", awayScore)
      s3 == Bump(Bump(s2, away, "goalsFor", awayScore), away, "goalsAgainst", homeScore)
      s4 == [ s3 EXCEPT !.rec[home].goalDifference =
                           s3.rec[home].goalsFor - s3.rec[home].goalsAgainst ]
      s5 == [ s4 EXCEPT !.rec[away].goalDifference =
                           s4.rec[away].goalsFor - s4.rec[away].goalsAgainst ]
  IN  AwardOutcome(s5, home, away, homeScore, awayScore)

\* data.results.forEach((r) => applyMatchResult(...))
RECURSIVE ApplyAll(_, _)
ApplyAll(scoreboard, results) ==
  IF results = <<>> THEN scoreboard
  ELSE ApplyAll(applyMatchResult(scoreboard, Head(results).home, Head(results).away,
                                 Head(results).homeScore, Head(results).awayScore),
                Tail(results))

\* ------------------------------------------------------ updateMatchResult

findIndexNothing(results, matchId) == -1

\* data.results.findIndex((r) => r.id === matchId), 0-based, -1 when absent
findIndex(results, matchId) ==
  IF \E i \in 1..Len(results) : results[i].id = matchId
  THEN (CHOOSE i \in 1..Len(results) :
          /\ results[i].id = matchId
          /\ \A j \in 1..(i - 1) : results[j].id # matchId) - 1
  ELSE -1

\* results.splice(index, 1)
SpliceNothing(results, index) == results

Splice(results, index) ==
  SubSeq(results, 1, index) \o SubSeq(results, index + 2, Len(results))

\* Array.from(teamSet) after adding home and away of every result
RECURSIVE AddResultTeams(_, _)
AddResultTeams(teams, results) ==
  IF results = <<>> THEN teams
  ELSE LET r  == Head(results)
           t1 == IF r.home \in Range(teams) THEN teams ELSE Append(teams, r.home)
           t2 == IF r.away \in Range(t1) THEN t1 ELSE Append(t1, r.away)
       IN  AddResultTeams(t2, Tail(results))

\* existingTeams.forEach: logos[t] = scoreboard[t].logo when it is set
PreservedLogosNone(logos, scoreboard, teams) == logos

RECURSIVE PreservedLogos(_, _, _)
PreservedLogos(logos, scoreboard, teams) ==
  IF teams = <<>> THEN logos
  ELSE PreservedLogos(
         IF Truthy(scoreboard.rec[Head(teams)].logo)
         THEN SetKey(logos, Head(teams), scoreboard.rec[Head(teams)].logo)
         ELSE logos,
         scoreboard, Tail(teams))

\* Lines 292-310: the standings rebuilt from the ledger.
RecomputeIncremental(scoreboard, results) ==
  LET r == results[Len(results)]
  IN  applyMatchResult(scoreboard, r.home, r.away, r.homeScore, r.awayScore)

RecomputeOnTop(scoreboard, results) == ApplyAll(scoreboard, results)

Recompute(scoreboard, results) ==
  LET existingTeams == scoreboard.keys
      teams         == AddResultTeams(existingTeams, results)
      logos         == PreservedLogos(EmptyObject, scoreboard, existingTeams)
  IN  ApplyAll(createInitialScoreboard(teams, logos), results)

\* The test of line 272 on the teams of a payload.
InvalidTeamsOnlyEmpty(payload) == ~Truthy(payload.home) \/ ~Truthy(payload.away)

InvalidTeams(payload) ==
  ~Truthy(payload.home) \/ ~Truthy(payload.away) \/ payload.home = payload.away

ErrNoScoreboard == "No scoreboard found. Generate a schedule first."

ErrInvalidTeams == "Invalid teams."

ErrScores == "Scores must be non-negative integers."

\* updateMatchResult on the loaded scoreboard file `data` (None: no file).
\* Returns the error ("" on success), the data to save and existingIndex.
updateMatchResult(data, payload) ==
  IF data = None
  THEN [ error |-> ErrNoScoreboard, data |-> data, existingIndex |-> -1 ]
  ELSE IF InvalidTeams(payload)
  THEN [ error |-> ErrInvalidTeams, data |-> data, existingIndex |-> -1 ]
  ELSE
    LET hScore == parseInt(payload.homeScore)
        aScore == parseInt(payload.awayScore)
    IN
    IF isNaN(hScore) \/ isNaN(aScore) \/ hScore[1] < 0 \/ aScore[1] < 0
    THEN [ error |-> ErrScores, data |-> data, existingIndex |-> -1 ]
    ELSE
      LET d             == data[1]
          matchId       == IF Truthy(payload.id) THEN payload.id
                           ELSE payload.home \o "-" \o payload.away
          existingIndex == findIndex(d.results, matchId)
          kept          == IF existingIndex # -1 THEN Splice(d.results, existingIndex)
                           ELSE d.results
          results       == Append(kept, [ id |-> matchId, home |-> payload.home,
                                          away |-> payload.away,
                                          homeScore |-> hScore[1],
                                          awayScore |-> aScore[1] ])
      IN  [ error |-> "",
            data  |-> Some([ d EXCEPT !.results = results,
                                      !.scoreboard = Recompute(d.scoreboard, results) ]),
            existingIndex |-> existingIndex ]

\* -------------------------------------------------------- generatePlayoff

\* The comparator of standings.sort (lines 346-351): negative when team a
\* sorts before team b.
compareStandings(scoreboard, a, b) ==
  LET ra == scoreboard.rec[a]
      rb == scoreboard.rec[b]
  IN  IF rb.points # ra.points THEN rb.points - ra.points
      ELSE IF rb.goalDifference # ra.goalDifference
      THEN rb.goalDifference - ra.goalDifference
      ELSE IF rb.goalsFor # ra.goalsFor THEN rb.goalsFor - ra.goalsFor
      ELSE localeCompare(a, b)

\* Array.prototype.sort is stable: a team goes behind every team already
\* placed that does not sort after it.
RECURSIVE InsertSorted(_, _, _)
InsertSorted(scoreboard, sorted, t) ==
  IF sorted = <<>> THEN <<t>>
  ELSE IF compareStandings(scoreboard, Head(sorted), t) > 0
  THEN <<t>> \o sorted
  ELSE <<Head(sorted)>> \o InsertSorted(scoreboard, Tail(sorted), t)

RECURSIVE SortInto(_, _, _)
SortInto(scoreboard, sorted, teams) ==
  IF teams = <<>> THEN sorted
  ELSE SortInto(scoreboard, InsertSorted(scoreboard, sorted, Head(teams)), Tail(teams))

SortedStandingsInKeyOrder(scoreboard) == scoreboard.keys

SortedStandings(scoreboard) == SortInto(scoreboard, <<>>, scoreboard.keys)

AtOneBased(array, i) == IF i + 1 < Len(array) THEN array[i + 2] ELSE JsNull

\* array[i], 0-based; an index past the end reads undefined, stored as null
At(array, i) == IF i < Len(array) THEN array[i + 1] ELSE JsNull

KnockoutMatch(id, home, away) ==
  [ id |-> id, home |-> home, away |-> away,
    homeScore |-> None, awayScore |-> None, winner |-> JsNull ]

\* totalMatches of generatePlayoff (lines 333-336)
TotalMatches(schedule) == Len(Flatten(schedule))

MinTeams == 4

ErrNoTournament == "No tournament data found."

ErrGroupStage == "Group stage is not yet complete."

ErrFourTeams == "At least four teams are required for semi finals."

\* The group-stage test of line 337.
GroupStageIncomplete(results, totalMatches) == Len(results) < totalMatches

\* The team-count test of line 341.
TooFewTeamsNever(teams) == FALSE

TooFewTeams(teams) == Len(teams) < MinTeams

WithKnockoutOnly(data, knockout) ==
  Some([ data[1] EXCEPT !.knockout = Some(knockout), !.results = <<>> ])

\* data.knockout = knockout before saveScoreboard (lines 360-361, 412-413):
\* the stored object with its knockout property replaced.
WithKnockout(data, knockout) == Some([ data[1] EXCEPT !.knockout = Some(knockout) ])

\* The test of line 329: a bracket is stored already.
BracketExistsNever(data) == FALSE

BracketExists(data) == data[1].knockout # None

\* generatePlayoff on the loaded schedule and scoreboard files.
\* Returns the error ("" on success), the knockout returned and the data as
\* stored afterwards.
generatePlayoff(schedule, data) ==
  IF schedule = None \/ data = None
  THEN [ error |-> ErrNoTournament, knockout |-> None, data |-> data ]
  ELSE IF BracketExists(data)
  THEN [ error |-> "", knockout |-> data[1].knockout, data |-> data ]
  ELSE IF GroupStageIncomplete(data[1].results, TotalMatches(schedule[1]))
  THEN [ error |-> ErrGroupStage, knockout |-> None, data |-> data ]
  ELSE IF TooFewTeams(data[1].scoreboard.keys)
  THEN [ error |-> ErrFourTeams, knockout |-> None, data |-> data ]
  ELSE
    LET sorted   == SortedStandings(data[1].scoreboard)
        top4     == SubSeq(sorted, 1, IF Len(sorted) < 4 THEN Len(sorted) ELSE 4)
        knockout == [ semiFinals |-> << KnockoutMatch("sf1", At(top4, 0), At(top4, 3)),
                                        KnockoutMatch("sf2", At(top4, 1), At(top4, 2)) >>,
                      final      |-> KnockoutMatch("final", JsNull, JsNull) ]
    IN  [ error |-> "", knockout |-> Some(knockout),
          data  |-> WithKnockout(data, knockout) ]

\* --------------------------------------------------------- updateKnockout

ErrNoKnockout == "No knockout bracket found."

ErrKnockoutPayload == "Invalid knockout update payload."

ErrNoMatch == "Match not found in knockout bracket."

\* id.startsWith('sf'), on the ids of the model
StartsWithSf(id) == id \in {"sf1", "sf2", "sf3"}

DecideWinnerBySide(match, h, a) ==
  [ match EXCEPT !.homeScore = Some(h), !.awayScore = Some(a),
                 !.winner = IF h < a THEN "away" ELSE "home" ]

DecideWinnerAsHome(match, h, a) ==
  [ match EXCEPT !.homeScore = Some(h), !.awayScore = Some(a),
                 !.home = IF h < a THEN match.away ELSE match.home,
                 !.winner = IF h < a THEN match.away ELSE match.home ]

DecideNoWinnerOnDraw(match, h, a) ==
  [ match EXCEPT !.homeScore = Some(h), !.awayScore = Some(a),
                 !.winner = IF h > a THEN match.home
                            ELSE IF h < a THEN match.away
                            ELSE JsNull ]

\* Lines 395-403: scores and winner of the match.
Decide(match, h, a) ==
  [ match EXCEPT !.homeScore = Some(h), !.awayScore = Some(a),
                 !.winner = IF h > a THEN match.home
                            ELSE IF h < a THEN match.away
                            ELSE match.home ]

\* The test of line 383 on the id and the parsed scores.
InvalidKnockoutPayloadIdOptional(id, h, a) ==
  isNaN(h) \/ isNaN(a) \/ h[1] < 0 \/ a[1] < 0

InvalidKnockoutPayload(id, h, a) ==
  ~Truthy(id) \/ isNaN(h) \/ isNaN(a) \/ h[1] < 0 \/ a[1] < 0

SetFinalTeamsAgain(knockout) ==
  IF \A i \in 1..Len(knockout.semiFinals) : Truthy(knockout.semiFinals[i].winner)
  THEN [ knockout EXCEPT !.final.home = knockout.semiFinals[1].winner,
                         !.final.away = knockout.semiFinals[2].winner ]
  ELSE knockout

SetFinalTeamsSwapped(knockout) ==
  IF /\ \A i \in 1..Len(knockout.semiFinals) : Truthy(knockout.semiFinals[i].winner)
     /\ ~Truthy(knockout.final.home)
     /\ ~Truthy(knockout.final.away)
  THEN [ knockout EXCEPT !.final.home = knockout.semiFinals[2].winner,
                         !.final.away = knockout.semiFinals[1].winner ]
  ELSE knockout

\* Lines 405-411: the final's teams once both semi-finals are decided.
SetFinalTeams(knockout) ==
  IF /\ \A i \in 1..Len(knockout.semiFinals) : Truthy(knockout.semiFinals[i].winner)
     /\ ~Truthy(knockout.final.home)
     /\ ~Truthy(knockout.final.away)
  THEN [ knockout EXCEPT !.final.home = knockout.semiFinals[1].winner,
                         !.final.away = knockout.semiFinals[2].winner ]
  ELSE knockout

updateKnockout(data, payload) ==
  IF data = None \/ data[1].knockout = None
  THEN [ error |-> ErrNoKnockout, data |-> data ]
  ELSE
    LET h == parseInt(payload.homeScore)
        a == parseInt(payload.awayScore)
        k == data[1].knockout[1]
    IN
    IF InvalidKnockoutPayload(payload.id, h, a)
    THEN [ error |-> ErrKnockoutPayload, data |-> data ]
    ELSE IF payload.id # "final"
            /\ \A i \in 1..Len(k.semiFinals) : k.semiFinals[i].id # payload.id
    THEN [ error |-> ErrNoMatch, data |-> data ]
    ELSE
      LET decided ==
            IF payload.id = "final"
            THEN [ k EXCEPT !.final = Decide(k.final, h[1], a[1]) ]
            ELSE LET i == CHOOSE j \in 1..Len(k.semiFinals) :
                            /\ k.semiFinals[j].id = payload.id
                            /\ \A l \in 1..(j - 1) : k.semiFinals[l].id # payload.id
                 IN  [ k EXCEPT !.semiFinals[i] = Decide(k.semiFinals[i], h[1], a[1]) ]
          after == IF StartsWithSf(payload.id) THEN SetFinalTeams(decided) ELSE decided
      IN  [ error |-> "", data |-> WithKnockout(data, after) ]

\* ------------------------------------------------- POST /tournaments

ErrNameAndTeams == "Tournament name and at least two teams are required."

ErrTwoValidNames == "At least two valid team names are required."

\* decodeBase64Image: the extension of a data URL, "" when it does not match
decodeBase64Image(logo) ==
  IF logo = "data:image/png;base64,AAAA" THEN "png" ELSE ""

\* slugify on the names of the model
slugify(s) ==
  CASE s = "A" -> "a" [] s = "B" -> "b" [] s = "C" -> "c"
    [] s = "Cup" -> "cup" [] s = "CUP!" -> "cup"
    [] s = "Y" -> "y" [] s = "Z" -> "z"
    [] s = "E_nfc" -> "" [] s = "E_nfd" -> "e"
    [] OTHER -> ""

\* The loop over payload.teams (lines 493-507): the trimmed non-empty names
RECURSIVE TeamNames(_)
TeamNames(teams) ==
  IF teams = <<>> THEN <<>>
  ELSE LET teamName == Trim(Head(teams).name)
       IN  (IF Truthy(teamName) THEN <<teamName>> ELSE <<>>) \o TeamNames(Tail(teams))

\* ... and the logo map it fills
RECURSIVE LogoMap(_, _, _)
LogoMap(logoMap, id, teams) ==
  IF teams = <<>> THEN logoMap
  ELSE LET teamName == Trim(Head(teams).name)
           ext      == decodeBase64Image(Head(teams).logo)
       IN  LogoMap(IF Truthy(teamName) /\ Truthy(Head(teams).logo) /\ Truthy(ext)
                   THEN SetKey(logoMap, teamName,
                               "/uploads/" \o id \o "/" \o slugify(teamName) \o "." \o ext)
                   ELSE logoMap,
                   id, Tail(teams))

\* The test of line 508 on the names collected.
TooFewNamesNever(teamNames) == FALSE

TooFewNames(teamNames) == Len(teamNames) < 2

\* generateTournamentId: the slug of the name, a hyphen and Date.now() in
\* base 36 (a single digit for the clock values of the model).
generateTournamentId(name, now) == slugify(name) \o "-" \o ToString(now)

getTournamentDirShared(id) == "data/cup-0"

\* getTournamentDir: path.join(dataDir, id)
getTournamentDir(id) == "data/" \o id

\* The creation handler: the error ("" on success) and the two files written.
createTournament(id, payload) ==
  IF ~Truthy(payload.name) \/ Len(payload.teams) < 2
  THEN [ error |-> ErrNameAndTeams, schedule |-> None, data |-> None ]
  ELSE
    LET teamNames == TeamNames(payload.teams)
        logoMap   == LogoMap(EmptyObject, id, payload.teams)
    IN  IF TooFewNames(teamNames)
        THEN [ error |-> ErrTwoValidNames, schedule |-> None, data |-> None ]
        ELSE [ error    |-> "",
               schedule |-> Some(generateSchedule(teamNames)),
               data     |-> Some([ scoreboard |-> createInitialScoreboard(teamNames, logoMap),
                                   results    |-> <<>>,
                                   knockout   |-> None ]) ]

\* ----------------------------------------------------------------- client
\* The playoff section of the page (src/unnamed/part_000).

\* computeMatchCount: the sum of the lengths of the rounds, 0 without a
\* schedule
computeMatchCount(scheduleData) ==
  IF scheduleData = None THEN 0
  ELSE SumSeq([ r \in 1..Len(scheduleData[1]) |-> Len(scheduleData[1][r]) ])

\* updatePlayoffSection: whether the generate-playoff button is displayed
\* (lines 593-618) for the schedule, match count and scoreboard data held.
ShowsGenerateButton(scheduleData, matchCount, scoreboardData) ==
  IF scheduleData = None \/ scoreboardData = None THEN FALSE
  ELSE IF scoreboardData[1].knockout # None THEN FALSE
  ELSE LET completed   == Len(scoreboardData[1].results) = matchCount
           enoughTeams == Len(scoreboardData[1].scoreboard.keys) >= 4
       IN  completed /\ enoughTeams

\* ------------------------------------------------------------------ state

VARIABLES
  schedule,   \* schedule.json of the tournament: None, or Some(rounds)
  data,       \* scoreboard.json: None, or Some([scoreboard, results, knockout])
  last,       \* the last request handled: operation, payload, error returned
              \* ("" on success), existingIndex of updateMatchResult, and the
              \* bracket returned by generatePlayoff
  gsTeams,    \* SpecSchedule: the argument of generateSchedule
  gsRounds,   \* SpecSchedule: None, or Some(the schedule returned)
  clock,      \* SpecRegistry: Date.now()
  store,      \* SpecRegistry: the files of each tournament directory
  registry,   \* SpecRegistry: tournaments.json, an array of entries
  inflight,   \* SpecConcurrent: the requests whose body is being received
  handled,    \* SpecConcurrent: the requests handled, in order
  fsWrite,    \* SpecStorage: what the last fs.writeFileSync did
  currentTournamentId,  \* SpecClient: the tournament the page shows, or null
  scheduleData,         \* SpecClient: None, or Some(the schedule held)
  matchCount,           \* SpecClient: the match count of the schedule held
  scoreboardData,       \* SpecClient: None, or Some(the scoreboard data held)
  pending               \* SpecClient: the fetches without a response yet

vars == << schedule, data, last, gsTeams, gsRounds,
           clock, store, registry, inflight, handled, fsWrite,
           currentTournamentId, scheduleData, matchCount, scoreboardData, pending >>

\* The variables of the page.
client == << currentTournamentId, scheduleData, matchCount, scoreboardData, pending >>

\* The variables of the specifications of several tournaments, of
\* concurrent requests and of failing writes.
aux == << clock, store, registry, inflight, handled, fsWrite, client >>

\* Bounds of SpecRegistry: the last value of the clock, the length of the
\* registry.
MaxClock == 1

MaxRegistry == 3

\* The ids generateTournamentId can give the names of the model.
IdPool == { generateTournamentId("Cup", now) : now \in 0..MaxClock }

Dirs == { "data/" \o id : id \in IdPool }

NoFiles == [ schedule |-> None, data |-> None ]

AuxIdle ==
  /\ clock = 0
  /\ store = [ dir \in Dirs |-> NoFiles ]
  /\ registry = <<>>
  /\ inflight = {}
  /\ handled = <<>>
  /\ fsWrite = "none"
  /\ currentTournamentId = JsNull
  /\ scheduleData = None
  /\ matchCount = 0
  /\ scoreboardData = None
  /\ pending = {}

TournamentId == "cup-1"

NoRequest ==
  [ op |-> "none", req |-> <<>>, error |-> "", existingIndex |-> -1, returned |-> None ]

\* ----------------------------------------------------------------- inputs

ValidLogo == "data:image/png;base64,AAAA"

Team(name, logo) == [ name |-> name, logo |-> logo ]

CreatePayloads ==
  { [ name |-> "Cup", teams |-> << Team(" A", ValidLogo), Team("B", "") >> ],
    [ name |-> "Cup", teams |-> << Team("E_nfc", ""), Team("E_nfd", "not an image") >> ],
    [ name |-> "Cup", teams |-> << Team("A", "") >> ],
    [ name |-> "Cup", teams |-> << Team("A", ""), Team(" ", "") >> ],
    [ name |-> "",    teams |-> << Team("A", ""), Team("B", "") >> ] }

\* The score texts (String(value)) of the result payloads: the pairs that
\* parseInt accepts, as 0-0, 1-0, 0-1 and 1-1, ...
AcceptedScores ==
  { << <<"0">>, <<"0">> >>, << <<"1">>, <<"0">> >>, << <<"0">>, <<"1">> >>,
    << <<"1", ".", "5">>, <<"1", "a">> >> }

\* ... and those it rejects: -1, a text without digits, a missing score.
RejectedScores ==
  { << <<"-", "1">>, <<"0">> >>, << <<"1">>, <<"x">> >>, << <<>>, <<"1">> >> }

Fixtures == IF schedule = None THEN <<>> ELSE Flatten(schedule[1])

ResultPayload(id, home, away, scores) ==
  [ id |-> id, home |-> home, away |-> away,
    homeScore |-> scores[1], awayScore |-> scores[2] ]

\* What the client posts: a fixture with its own id and teams.
FixturePayloads ==
  { ResultPayload(Fixtures[i].id, Fixtures[i].home, Fixtures[i].away, sc) :
      i \in 1..Len(Fixtures), sc \in AcceptedScores \cup RejectedScores }

\* Other requests: an id that is no fixture's, with two teams that are not of
\* the tournament or with a fixture's teams; a fixture's teams without an id;
\* and invalid teams.
OtherPayloads ==
  { ResultPayload("x", "Y", "Z", sc) :
      sc \in { << <<"1">>, <<"0">> >>, << <<"0">>, <<"0">> >> } }
    \cup { ResultPayload("x", Fixtures[i].home, Fixtures[i].away,
                         << <<"1", ".", "5">>, <<"1", "a">> >>) : i \in 1..Len(Fixtures) }
    \cup { ResultPayload("", Fixtures[i].home, Fixtures[i].away, << <<"0">>, <<"1">> >>) :
             i \in 1..Len(Fixtures) }
    \cup { ResultPayload("x", "", "A", << <<"1">>, <<"0">> >>),
           ResultPayload("x", "A", "A", << <<"1">>, <<"0">> >>) }

ResultPayloads == FixturePayloads \cup OtherPayloads

\* ---------------------------------------------------------------- actions

\* POST /tournaments (the tournament of the model is created once)
CreateTournament(payload) ==
  /\ data = None
  /\ LET res == createTournament(TournamentId, payload)
     IN  /\ schedule' = res.schedule
         /\ data' = res.data
         /\ last' = [ op |-> "create", req |-> payload, error |-> res.error,
                      existingIndex |-> -1, returned |-> None ]
  /\ UNCHANGED << gsTeams, gsRounds, aux >>

\* POST /tournaments/:id/update-score
UpdateMatchResult(payload) ==
  /\ LET res == updateMatchResult(data, payload)
     IN  /\ data' = res.data
         /\ last' = [ op |-> "upsert", req |-> payload, error |-> res.error,
                      existingIndex |-> res.existingIndex, returned |-> None ]
  /\ UNCHANGED << schedule, gsTeams, gsRounds, aux >>

GeneratePlayoffRewritingSchedule ==
  /\ LET res == generatePlayoff(schedule, data)
     IN  /\ data' = res.data
         /\ last' = [ op |-> "playoff", req |-> <<>>, error |-> res.error,
                      existingIndex |-> -1, returned |-> res.knockout ]
         /\ schedule' = IF res.error = "" THEN None ELSE schedule
  /\ UNCHANGED << gsTeams, gsRounds, aux >>

\* POST /tournaments/:id/generate-playoff
GeneratePlayoff ==
  /\ LET res == generatePlayoff(schedule, data)
     IN  /\ data' = res.data
         /\ last' = [ op |-> "playoff", req |-> <<>>, error |-> res.error,
                      existingIndex |-> -1, returned |-> res.knockout ]
  /\ UNCHANGED << schedule, gsTeams, gsRounds, aux >>

Init ==
  /\ schedule = None
  /\ data = None
  /\ last = NoRequest
  /\ gsTeams = <<>>
  /\ gsRounds = None
  /\ AuxIdle

Next ==
  \/ \E payload \in CreatePayloads : CreateTournament(payload)
  \/ \E payload \in ResultPayloads : UpdateMatchResult(payload)
  \/ GeneratePlayoff

Spec == Init /\ [][Next]_vars

\* ----------------------------------------------------------- SpecKnockout
\* The knockout stage: a tournament of A and B, the results that complete its
\* group stage and bring four teams into the standings, the bracket, and the
\* knockout results.

KnockoutCreatePayloads ==
  { [ name |-> "Cup", teams |-> << Team("A", ""), Team("B", "") >> ] }

KnockoutStageResultPayloads ==
  { ResultPayload("r0-m0", "A", "B", << <<"1">>, <<"0">> >>),
    ResultPayload("x", "Y", "Z", << <<"1">>, <<"0">> >>) }

KnockoutPayload(id, homeScore, awayScore) ==
  [ id |-> id, homeScore |-> homeScore, awayScore |-> awayScore ]

\* What the client posts (a match of the bracket with two numbers), and
\* requests with another id, without an id, and with scores that are no
\* non-negative integers.
KnockoutPayloads ==
  { KnockoutPayload(id, sc[1], sc[2]) :
      id \in { "sf1", "sf2", "final" },
      sc \in { << <<"1">>, <<"0">> >>, << <<"0">>, <<"1">> >>, << <<"0">>, <<"0">> >> } }
    \cup { KnockoutPayload("sf1", <<"1", ".", "5">>, <<"1", "a">>),
           KnockoutPayload("sf1", <<"-", "1">>, <<"0">>),
           KnockoutPayload("sf3", <<"-", "1">>, <<"0">>),
           KnockoutPayload("sf3", <<"1">>, <<"0">>),
           KnockoutPayload("", <<"1">>, <<"0">>) }

\* POST /tournaments/:id/update-knockout
UpdateKnockout(payload) ==
  /\ LET res == updateKnockout(data, payload)
     IN  /\ data' = res.data
         /\ last' = [ op |-> "knockout", req |-> payload, error |-> res.error,
                      existingIndex |-> -1, returned |-> None ]
  /\ UNCHANGED << schedule, gsTeams, gsRounds, aux >>

InitKnockout ==
  /\ schedule = None
  /\ data = None
  /\ last = NoRequest
  /\ gsTeams = <<>>
  /\ gsRounds = None
  /\ AuxIdle

NextKnockout ==
  \/ \E payload \in KnockoutCreatePayloads : CreateTournament(payload)
  \/ \E payload \in KnockoutStageResultPayloads : UpdateMatchResult(payload)
  \/ GeneratePlayoff
  \/ \E payload \in KnockoutPayloads : UpdateKnockout(payload)

SpecKnockout == InitKnockout /\ [][NextKnockout]_vars

\* ----------------------------------------------------------- SpecRegistry
\* Several tournaments: the registry, a directory per id, and the clock that
\* generateTournamentId reads.

loadSchedule(files, id) == files[getTournamentDir(id)].schedule

loadScoreboard(files, id) == files[getTournamentDir(id)].data

RegistryCreatePayloads ==
  { [ name |-> "Cup",  teams |-> << Team("A", ""), Team("B", "") >> ],
    [ name |-> "CUP!", teams |-> << Team("A", ""), Team("C", "") >> ],
    [ name |-> "Cup",  teams |-> << Team("A", ""), Team(" A", "") >> ],
    [ name |-> "Cup",  teams |-> << Team("A", ""), Team(" ", "") >> ],
    [ name |-> "Cup",  teams |-> << Team("A", "") >> ],
    [ name |-> "Cup",  teams |-> << >> ] }

RegistryResultPayloads == { ResultPayload("x", "Y", "Z", << <<"1">>, <<"0">> >>) }

RegistryKnockoutPayloads == { KnockoutPayload("sf1", <<"1">>, <<"0">>) }

Request(tid, body) == [ tid |-> tid, body |-> body ]

\* Date.now() moves on
Tick ==
  /\ clock < MaxClock
  /\ clock' = clock + 1
  /\ UNCHANGED << schedule, data, last, gsTeams, gsRounds, client,
                  store, registry, inflight, handled, fsWrite >>

\* POST /tournaments
CreateInRegistry(payload) ==
  /\ Len(registry) < MaxRegistry
  /\ LET id  == generateTournamentId(payload.name, clock)
         res == createTournament(id, payload)
     IN  IF res.error = ""
         THEN /\ store' = [ store EXCEPT ![getTournamentDir(id)] =
                                    [ schedule |-> res.schedule, data |-> res.data ] ]
              /\ registry' = Append(registry, [ id |-> id, name |-> payload.name,
                                                createdAt |-> clock ])
              /\ last' = [ op |-> "create", req |-> payload, error |-> "",
                           existingIndex |-> -1, returned |-> Some(id) ]
         ELSE /\ last' = [ op |-> "create", req |-> payload, error |-> res.error,
                           existingIndex |-> -1, returned |-> None ]
              /\ UNCHANGED << store, registry >>
  /\ UNCHANGED << schedule, data, gsTeams, gsRounds, client, clock, inflight, handled, fsWrite >>

\* POST /tournaments/:id/update-score
UpdateMatchResultIn(tid, payload) ==
  /\ LET res == updateMatchResult(loadScoreboard(store, tid), payload)
     IN  /\ store' = [ store EXCEPT ![getTournamentDir(tid)].data = res.data ]
         /\ last' = [ op |-> "upsert", req |-> Request(tid, payload), error |-> res.error,
                      existingIndex |-> res.existingIndex, returned |-> None ]
  /\ UNCHANGED << schedule, data, gsTeams, gsRounds, client,
                  clock, registry, inflight, handled, fsWrite >>

\* POST /tournaments/:id/generate-playoff
GeneratePlayoffIn(tid) ==
  /\ LET res == generatePlayoff(loadSchedule(store, tid), loadScoreboard(store, tid))
     IN  /\ store' = [ store EXCEPT ![getTournamentDir(tid)].data = res.data ]
         /\ last' = [ op |-> "playoff", req |-> Request(tid, <<>>), error |-> res.error,
                      existingIndex |-> -1, returned |-> res.knockout ]
  /\ UNCHANGED << schedule, data, gsTeams, gsRounds, client,
                  clock, registry, inflight, handled, fsWrite >>

\* POST /tournaments/:id/update-knockout
UpdateKnockoutIn(tid, payload) ==
  /\ LET res == updateKnockout(loadScoreboard(store, tid), payload)
     IN  /\ store' = [ store EXCEPT ![getTournamentDir(tid)].data = res.data ]
         /\ last' = [ op |-> "knockout", req |-> Request(tid, payload), error |-> res.error,
                      existingIndex |-> -1, returned |-> None ]
  /\ UNCHANGED << schedule, data, gsTeams, gsRounds, client,
                  clock, registry, inflight, handled, fsWrite >>

InitRegistry ==
  /\ schedule = None
  /\ data = None
  /\ last = NoRequest
  /\ gsTeams = <<>>
  /\ gsRounds = None
  /\ AuxIdle

NextRegistry ==
  \/ Tick
  \/ \E payload \in RegistryCreatePayloads : CreateInRegistry(payload)
  \/ \E tid \in IdPool, payload \in RegistryResultPayloads : UpdateMatchResultIn(tid, payload)
  \/ \E tid \in IdPool : GeneratePlayoffIn(tid)
  \/ \E tid \in IdPool, payload \in RegistryKnockoutPayloads : UpdateKnockoutIn(tid, payload)

SpecRegistry == InitRegistry /\ [][NextRegistry]_vars

\* --------------------------------------------------------- SpecConcurrent
\* Concurrent requests to one tournament on one server process. A handler
\* with a body awaits parseRequestBody and then runs to its end without
\* another await: it loads, computes, saves and answers in one step.
\* generate-playoff has no body and runs at once.

\* Bound: the requests received
MaxRequests == 5

ConcurrentRequests ==
  { [ op |-> "create", body |-> payload ] : payload \in KnockoutCreatePayloads }
    \cup { [ op |-> "upsert", body |-> payload ] : payload \in KnockoutStageResultPayloads }
    \cup { [ op |-> "knockout", body |-> payload ] :
             payload \in { KnockoutPayload("sf1", <<"1">>, <<"0">>),
                           KnockoutPayload("sf1", <<"0">>, <<"1">>) } }

Received == Cardinality(inflight) + Len(handled)

\* The request arrives; its body is being read (await parseRequestBody).
\* seen records the stored files at that moment.
Receive(request) ==
  /\ Received < MaxRequests
  /\ inflight' = inflight \cup { [ op |-> request.op, body |-> request.body,
                                   seen |-> [ schedule |-> schedule, data |-> data ] ] }
  /\ UNCHANGED << schedule, data, last, gsTeams, gsRounds, client,
                  clock, store, registry, handled, fsWrite >>

LoadedOnArrival(request) == request.seen

\* loadSchedule and loadScoreboard as called by the handler after the body
\* was read: the files as they are now.
Loaded(request) == [ schedule |-> schedule, data |-> data ]

\* The synchronous part of a handler on the files it loads: the error and
\* the files afterwards.
Handler(op, body, files) ==
  IF op = "create"
  THEN LET res == createTournament(TournamentId, body)
       IN  IF res.error = ""
           THEN [ error |-> "", schedule |-> res.schedule, data |-> res.data ]
           ELSE [ error |-> res.error, schedule |-> files.schedule, data |-> files.data ]
  ELSE IF op = "upsert"
  THEN LET res == updateMatchResult(files.data, body)
       IN  [ error |-> res.error, schedule |-> files.schedule, data |-> res.data ]
  ELSE IF op = "playoff"
  THEN LET res == generatePlayoff(files.schedule, files.data)
       IN  [ error |-> res.error, schedule |-> files.schedule, data |-> res.data ]
  ELSE LET res == updateKnockout(files.data, body)
       IN  [ error |-> res.error, schedule |-> files.schedule, data |-> res.data ]

\* The body of a request in flight has been read: its handler runs.
Handle(request) ==
  /\ request \in inflight
  /\ request.op = "create" => data = None
  /\ LET res == Handler(request.op, request.body, Loaded(request))
     IN  /\ schedule' = res.schedule
         /\ data' = res.data
         /\ last' = [ op |-> request.op, req |-> request.body, error |-> res.error,
                      existingIndex |-> -1, returned |-> None ]
         /\ handled' = Append(handled, [ op |-> request.op, body |-> request.body,
                                         error |-> res.error, seen |-> request.seen ])
  /\ inflight' = inflight \ { request }
  /\ UNCHANGED << gsTeams, gsRounds, client, clock, store, registry, fsWrite >>

\* POST /tournaments/:id/generate-playoff: no body, handled on arrival
GeneratePlayoffNow ==
  /\ Received < MaxRequests
  /\ LET res == Handler("playoff", <<>>, [ schedule |-> schedule, data |-> data ])
     IN  /\ data' = res.data
         /\ last' = [ op |-> "playoff", req |-> <<>>, error |-> res.error,
                      existingIndex |-> -1, returned |-> None ]
         /\ handled' = Append(handled, [ op |-> "playoff", body |-> <<>>,
                                         error |-> res.error,
                                         seen |-> [ schedule |-> schedule, data |-> data ] ])
  /\ UNCHANGED << schedule, gsTeams, gsRounds, client, clock, store, registry, inflight, fsWrite >>

InitConcurrent ==
  /\ schedule = None
  /\ data = None
  /\ last = NoRequest
  /\ gsTeams = <<>>
  /\ gsRounds = None
  /\ AuxIdle

NextConcurrent ==
  \/ \E request \in ConcurrentRequests : Receive(request)
  \/ \E request \in inflight : Handle(request)
  \/ GeneratePlayoffNow

SpecConcurrent == InitConcurrent /\ [][NextConcurrent]_vars

\* ------------------------------------------------------------ SpecStorage
\* Writes that fail. fs.writeFileSync opens the file truncating it and then
\* writes: it can succeed, fail before the file is touched (the open is
\* refused), or fail after the truncation, which leaves a file that
\* JSON.parse rejects, so that the load functions return null.

WriteOutcomes == { "written", "refused", "truncated" }

\* The file after fs.writeFileSync(path, content) inside try/catch: the
\* error is logged and swallowed.
writeFileSync(old, new, outcome) ==
  IF outcome = "written" THEN new
  ELSE IF outcome = "refused" THEN old
  ELSE None

StorageCreatePayloads == KnockoutCreatePayloads

StorageResultPayloads == KnockoutStageResultPayloads

StorageKnockoutPayloads ==
  { KnockoutPayload("sf1", <<"1">>, <<"0">>), KnockoutPayload("sf2", <<"0">>, <<"1">>),
    KnockoutPayload("final", <<"1">>, <<"0">>), KnockoutPayload("sf3", <<"1">>, <<"0">>) }

\* POST /tournaments: saveSchedule, then saveScoreboard
CreateOnDisk(payload, scheduleOutcome, scoreboardOutcome) ==
  /\ schedule = None
  /\ data = None
  /\ LET res == createTournament(TournamentId, payload)
     IN  /\ schedule' = IF res.error = ""
                        THEN writeFileSync(schedule, res.schedule, scheduleOutcome)
                        ELSE schedule
         /\ data' = IF res.error = ""
                    THEN writeFileSync(data, res.data, scoreboardOutcome)
                    ELSE data
         /\ fsWrite' = IF res.error = "" THEN scoreboardOutcome ELSE "none"
         /\ last' = [ op |-> "create", req |-> payload, error |-> res.error,
                      existingIndex |-> -1, returned |-> None ]
  /\ UNCHANGED << gsTeams, gsRounds, client, clock, store, registry, inflight, handled >>

\* POST /tournaments/:id/update-score: saveScoreboard at line 311
UpdateMatchResultOnDisk(payload, outcome) ==
  /\ LET res == updateMatchResult(data, payload)
     IN  /\ data' = IF res.error = "" THEN writeFileSync(data, res.data, outcome) ELSE data
         /\ fsWrite' = IF res.error = "" THEN outcome ELSE "none"
         /\ last' = [ op |-> "upsert", req |-> payload, error |-> res.error,
                      existingIndex |-> res.existingIndex, returned |-> None ]
  /\ UNCHANGED << schedule, gsTeams, gsRounds, client, clock, store, registry, inflight, handled >>

\* POST /tournaments/:id/generate-playoff: saveScoreboard at line 361, when
\* the bracket is created
GeneratePlayoffOnDisk(outcome) ==
  /\ LET res   == generatePlayoff(schedule, data)
         saves == res.error = "" /\ ~BracketExists(data)
     IN  /\ data' = IF saves THEN writeFileSync(data, res.data, outcome) ELSE data
         /\ fsWrite' = IF saves THEN outcome ELSE "none"
         /\ last' = [ op |-> "playoff", req |-> <<>>, error |-> res.error,
                      existingIndex |-> -1, returned |-> res.knockout ]
  /\ UNCHANGED << schedule, gsTeams, gsRounds, client, clock, store, registry, inflight, handled >>

\* POST /tournaments/:id/update-knockout: saveScoreboard at line 413
UpdateKnockoutOnDisk(payload, outcome) ==
  /\ LET res == updateKnockout(data, payload)
     IN  /\ data' = IF res.error = "" THEN writeFileSync(data, res.data, outcome) ELSE data
         /\ fsWrite' = IF res.error = "" THEN outcome ELSE "none"
         /\ last' = [ op |-> "knockout", req |-> payload, error |-> res.error,
                      existingIndex |-> -1,
                      returned |-> IF res.error = "" THEN res.data[1].knockout ELSE None ]
  /\ UNCHANGED << schedule, gsTeams, gsRounds, client, clock, store, registry, inflight, handled >>

InitStorage ==
  /\ schedule = None
  /\ data = None
  /\ last = NoRequest
  /\ gsTeams = <<>>
  /\ gsRounds = None
  /\ AuxIdle

NextStorage ==
  \/ \E payload \in StorageCreatePayloads, o1, o2 \in WriteOutcomes :
       CreateOnDisk(payload, o1, o2)
  \/ \E payload \in StorageResultPayloads, outcome \in WriteOutcomes :
       UpdateMatchResultOnDisk(payload, outcome)
  \/ \E outcome \in WriteOutcomes : GeneratePlayoffOnDisk(outcome)
  \/ \E payload \in StorageKnockoutPayloads, outcome \in WriteOutcomes :
       UpdateKnockoutOnDisk(payload, outcome)

SpecStorage == InitStorage /\ [][NextStorage]_vars

\* ------------------------------------------------------------- SpecClient
\* The page (src/unnamed/part_000) against a server that lists three
\* tournaments: opening a tournament, returning to the list, and the
\* responses of the fetches of loadSchedule and loadScoreboard, which arrive
\* in any order.

ListedTournaments == { "cup-0", "cup-1", "cup-2" }

\* The files of the tournaments on the server: cup-0 as created, cup-1 with
\* one result, cup-2 without files (its requests are answered with 404).
Served(id) ==
  IF id = "cup-2" THEN NoFiles
  ELSE IF id = "cup-0"
  THEN LET res == createTournament(id, [ name |-> "Cup",
                                         teams |-> << Team("A", ""), Team("B", "") >> ])
       IN  [ schedule |-> res.schedule, data |-> res.data ]
  ELSE LET res == createTournament(id, [ name |-> "CUP!",
                                         teams |-> << Team("A", ""), Team("C", "") >> ])
       IN  [ schedule |-> res.schedule,
             data |-> updateMatchResult(res.data,
                        ResultPayload("r0-m0", "A", "C", << <<"1">>, <<"0">> >>)).data ]

Fetch(kind, id) == [ kind |-> kind, id |-> id ]

\* openTournament(id, name): the context is set, the data held are reset,
\* loadSchedule and loadScoreboard start their fetches.
OpenTournament(id) ==
  /\ currentTournamentId' = id
  /\ scheduleData' = None
  /\ matchCount' = 0
  /\ scoreboardData' = None
  /\ pending' = pending \cup { Fetch("schedule", id), Fetch("scoreboard", id) }
  /\ UNCHANGED << schedule, data, last, gsTeams, gsRounds,
                  clock, store, registry, inflight, handled, fsWrite >>

\* The click on backToListBtn
BackToList ==
  /\ currentTournamentId' = JsNull
  /\ scheduleData' = None
  /\ matchCount' = 0
  /\ scoreboardData' = None
  /\ UNCHANGED << schedule, data, last, gsTeams, gsRounds,
                  clock, store, registry, inflight, handled, fsWrite, pending >>

\* The then-callback of loadSchedule's fetch (lines 287-296)
ScheduleResponse(fetch) ==
  /\ fetch \in pending
  /\ fetch.kind = "schedule"
  /\ pending' = pending \ { fetch }
  /\ IF Served(fetch.id).schedule = None
     THEN UNCHANGED << scheduleData, matchCount >>
     ELSE /\ scheduleData' = Served(fetch.id).schedule
          /\ matchCount' = computeMatchCount(Served(fetch.id).schedule)
  /\ UNCHANGED << schedule, data, last, gsTeams, gsRounds,
                  clock, store, registry, inflight, handled, fsWrite,
                  currentTournamentId, scoreboardData >>

\* The then-callback of loadScoreboard's fetch (lines 309-319)
ScoreboardResponse(fetch) ==
  /\ fetch \in pending
  /\ fetch.kind = "scoreboard"
  /\ pending' = pending \ { fetch }
  /\ IF Served(fetch.id).data = None
     THEN UNCHANGED scoreboardData
     ELSE scoreboardData' = Served(fetch.id).data
  /\ UNCHANGED << schedule, data, last, gsTeams, gsRounds,
                  clock, store, registry, inflight, handled, fsWrite,
                  currentTournamentId, scheduleData, matchCount >>

InitClient ==
  /\ schedule = None
  /\ data = None
  /\ last = NoRequest
  /\ gsTeams = <<>>
  /\ gsRounds = None
  /\ AuxIdle

NextClient ==
  \/ \E id \in ListedTournaments : OpenTournament(id)
  \/ BackToList
  \/ \E fetch \in pending : ScheduleResponse(fetch)
  \/ \E fetch \in pending : ScoreboardResponse(fetch)

SpecClient == InitClient /\ [][NextClient]_vars

\* ----------------------------------------------------------- SpecSchedule

NamePool == <<"A", "B", "C", "D", "E", "F", "G", "H">>

ScheduleNames == { NamePool[i] : i \in 1..MaxTeams }

TeamLists == UNION { [ 1..k -> ScheduleNames ] : k \in 1..MaxTeams }

InitSchedule ==
  /\ schedule = None
  /\ data = None
  /\ last = NoRequest
  /\ gsTeams \in TeamLists
  /\ gsRounds = None
  /\ AuxIdle

CallGenerateSchedule ==
  /\ gsRounds = None
  /\ gsRounds' = Some(generateSchedule(gsTeams))
  /\ UNCHANGED << schedule, data, last, gsTeams, aux >>

NextSchedule == CallGenerateSchedule

SpecSchedule == InitSchedule /\ [][NextSchedule]_vars

\* ------------------------------------------------- properties: schedule

Distinct(seq) == \A i, j \in 1..Len(seq) : seq[i] = seq[j] => i = j

\* The call of SpecSchedule has returned, for k >= 2 distinct team names.
ScheduleReturned == gsRounds # None /\ Len(gsTeams) >= 2 /\ Distinct(gsTeams)

RoundsOut == gsRounds[1]

FixturesOut == Flatten(RoundsOut)

\* C5: for k >= 2 distinct team names generateSchedule returns n-1 rounds,
\* n being k rounded up to even, and k*(k-1)/2 fixtures in total, and no two
\* fixtures of the schedule have the same id.
C5_RoundAndFixtureCount ==
  ScheduleReturned =>
    LET k == Len(gsTeams)
        n == k + (k % 2)
    IN  /\ Len(RoundsOut) = n - 1
        /\ Len(FixturesOut) = (k * (k - 1)) \div 2
        /\ \A i, j \in 1..Len(FixturesOut) :
             FixturesOut[i].id = FixturesOut[j].id => i = j

C5_Witness ==
  /\ ScheduleReturned
  /\ Len(gsTeams) = 5
  /\ Len(RoundsOut) = 5
  /\ Len(FixturesOut) = 10

\* C6: for k >= 2 distinct team names the schedule is a single round-robin:
\* every unordered pair of distinct teams is home/away of exactly one
\* fixture, no team plays twice in one round, and no fixture contains the
\* bye placeholder.
C6_SingleRoundRobin ==
  ScheduleReturned =>
    /\ \A a, b \in Range(gsTeams) :
         a # b => Cardinality({ i \in 1..Len(FixturesOut) :
                                  {FixturesOut[i].home, FixturesOut[i].away} = {a, b} }) = 1
    /\ \A r \in 1..Len(RoundsOut) : \A i, j \in 1..Len(RoundsOut[r]) :
         i # j => {RoundsOut[r][i].home, RoundsOut[r][i].away}
                    \cap {RoundsOut[r][j].home, RoundsOut[r][j].away} = {}
    /\ \A i \in 1..Len(FixturesOut) :
         /\ FixturesOut[i].home \in Range(gsTeams)
         /\ FixturesOut[i].away \in Range(gsTeams)
         /\ FixturesOut[i].home # FixturesOut[i].away

C6_Witness ==
  /\ ScheduleReturned
  /\ Len(gsTeams) = 4
  /\ \E r \in 1..Len(RoundsOut) : Len(RoundsOut[r]) = 2

\* C7: in every round r of the schedule the fixture ids are r{r}-m{j} with
\* j running over exactly 0..(number of fixtures of the round - 1), for even
\* and for odd team counts, and r over 0..(rounds - 1).
C7_ContiguousMatchIndices ==
  ScheduleReturned =>
    \A r \in 1..Len(RoundsOut) : \A j \in 1..Len(RoundsOut[r]) :
      RoundsOut[r][j].id = "r" \o ToString(r - 1) \o "-m" \o ToString(j - 1)

\* --------------------------------------------------- properties: ledger

HasData == data # None

Results == data[1].results

Scoreboard == data[1].scoreboard

StandingsTeams == Range(Scoreboard.keys)

\* The last request was an upsertResult that was accepted.
UpsertAccepted(l) == l.op = "upsert" /\ l.error = ""

\* The record of team t counted directly from a ledger: one term per entry.
Count(results, P(_)) == Cardinality({ i \in 1..Len(results) : P(results[i]) })

GoalsOf(results, t, own) ==
  SumSeq([ i \in 1..Len(results) |->
             IF results[i].home = t
             THEN (IF own THEN results[i].homeScore ELSE results[i].awayScore)
             ELSE IF results[i].away = t
             THEN (IF own THEN results[i].awayScore ELSE results[i].homeScore)
             ELSE 0 ])

Tally(results, t) ==
  LET Plays(r) == r.home = t \/ r.away = t
      Won(r)   == \/ r.home = t /\ r.homeScore > r.awayScore
                  \/ r.away = t /\ r.awayScore > r.homeScore
      Drew(r)  == Plays(r) /\ r.homeScore = r.awayScore
      Lost(r)  == Plays(r) /\ ~Won(r) /\ ~Drew(r)
  IN  [ played         |-> Count(results, Plays),
        wins           |-> Count(results, Won),
        draws          |-> Count(results, Drew),
        losses         |-> Count(results, Lost),
        goalsFor       |-> GoalsOf(results, t, TRUE),
        goalsAgainst   |-> GoalsOf(results, t, FALSE),
        goalDifference |-> GoalsOf(results, t, TRUE) - GoalsOf(results, t, FALSE),
        points         |-> 3 * Count(results, Won) + Count(results, Drew) ]

\* The numbers of a team record, without its logo.
Numbers(rec) ==
  [ played |-> rec.played, wins |-> rec.wins, draws |-> rec.draws,
    losses |-> rec.losses, goalsFor |-> rec.goalsFor,
    goalsAgainst |-> rec.goalsAgainst, goalDifference |-> rec.goalDifference,
    points |-> rec.points ]

StandingsAreTallyOf(scoreboard, results) ==
  \A t \in Range(scoreboard.keys) : Numbers(scoreboard.rec[t]) = Tally(results, t)

\* C1: after any sequence of upsertResult calls, accepted or rejected, every
\* team record of the stored standings has points = 3*wins + draws,
\* goalDifference = goalsFor - goalsAgainst and played = wins + draws + losses.
C1_RecordsConsistent ==
  HasData =>
    \A t \in StandingsTeams :
      LET rec == Scoreboard.rec[t]
      IN  /\ rec.points = 3 * rec.wins + rec.draws
          /\ rec.goalDifference = rec.goalsFor - rec.goalsAgainst
          /\ rec.played = rec.wins + rec.draws + rec.losses

\* A team with a win and a loss, after a rejected request that followed
\* accepted ones.
C1_Witness ==
  /\ HasData
  /\ last.op = "upsert"
  /\ last.error = ErrScores
  /\ \E t \in StandingsTeams :
       Scoreboard.rec[t].wins = 1 /\ Scoreboard.rec[t].losses = 1

\* C2: in every reachable state the ledger holds at most one result per id.
C2_OneResultPerId ==
  HasData => \A i, j \in 1..Len(Results) : Results[i].id = Results[j].id => i = j

\* A resubmission has just replaced the entry of its id in a ledger of three.
C2_Witness ==
  /\ HasData
  /\ UpsertAccepted(last)
  /\ last.existingIndex # -1
  /\ Len(Results) = 3

\* The id under which a payload is filed, and the entry it leaves.
FiledId(req) == IF req.id # "" THEN req.id ELSE req.home \o "-" \o req.away

\* C3: a successful upsertResult with an id the ledger already holds leaves
\* the ledger length unchanged, removes the prior entry of that id and keeps
\* every other entry, and the standings are the tally of the new ledger: the
\* replaced entry contributes nothing.
C3_ResubmitReplaces ==
  [][ ( /\ HasData
        /\ UpsertAccepted(last')
        /\ \E i \in 1..Len(Results) : Results[i].id = FiledId(last'.req) )
      =>
      LET old == Results
          new == data'[1].results
          X   == FiledId(last'.req)
      IN  /\ Len(new) = Len(old)
          /\ Cardinality({ i \in 1..Len(new) : new[i].id = X }) = 1
          /\ new[Len(new)].id = X
          /\ new[Len(new)].home = last'.req.home
          /\ new[Len(new)].away = last'.req.away
          /\ Some(new[Len(new)].homeScore) = parseInt(last'.req.homeScore)
          /\ Some(new[Len(new)].awayScore) = parseInt(last'.req.awayScore)
          /\ { old[i] : i \in { j \in 1..Len(old) : old[j].id # X } }
               = { new[i] : i \in { j \in 1..Len(new) : new[j].id # X } }
          /\ StandingsAreTallyOf(data'[1].scoreboard, new)
    ]_vars

\* A resubmission of an entry that was not the last one, with other teams
\* than the entry it replaced: a team of the replaced entry is left without
\* any result, next to a team with two.
C3_Witness ==
  /\ HasData
  /\ UpsertAccepted(last)
  /\ last.existingIndex = 0
  /\ Len(Results) = 2
  /\ \E t \in StandingsTeams : Scoreboard.rec[t].played = 2
  /\ \E t \in StandingsTeams :
       /\ \A i \in 1..Len(Results) : t \notin {Results[i].home, Results[i].away}
       /\ \A i \in 1..Len(Fixtures) : t \notin {Fixtures[i].home, Fixtures[i].away}

\* The standings with every number replaced by an arbitrary one.
Scrambled(scoreboard) ==
  [ scoreboard EXCEPT !.rec =
      [ t \in DOMAIN scoreboard.rec |->
          [ ZeroRecord(scoreboard.rec[t].logo) EXCEPT
              !.played = 7, !.wins = 5, !.draws = 1, !.losses = 1,
              !.goalsFor = 9, !.goalsAgainst = 4, !.goalDifference = 5,
              !.points = 16 ] ] ]

\* C4: after every successful upsertResult the stored standings are the
\* from-scratch tally of the whole ledger over the team set (the teams of
\* the previous standings and of the ledger), and nothing of the previous
\* standings but the team set and the logos influences them.
C4_StandingsAreFold ==
  [][ (HasData /\ UpsertAccepted(last'))
      =>
      LET new == data'[1].scoreboard
      IN  /\ StandingsAreTallyOf(new, data'[1].results)
          /\ Range(new.keys) =
               StandingsTeams
                 \cup { data'[1].results[i].home : i \in 1..Len(data'[1].results) }
                 \cup { data'[1].results[i].away : i \in 1..Len(data'[1].results) }
          /\ new = Recompute(Scrambled(Scoreboard), data'[1].results)
    ]_vars

\* An accepted first submission that was added to a non-empty ledger in
\* which some team has a draw.
C4_Witness ==
  /\ HasData
  /\ UpsertAccepted(last)
  /\ last.existingIndex = -1
  /\ Len(Results) >= 2
  /\ \E t \in StandingsTeams : Scoreboard.rec[t].draws = 1

\* -------------------------------------------------- properties: bracket

SortsBefore(a, b) == compareStandings(Scoreboard, a, b) < 0

\* C8: the standings comparator is a strict total order over the teams of a
\* tournament: of two distinct teams exactly one sorts before the other, and
\* the relation is transitive.
C8_StrictTotalOrder ==
  HasData =>
    /\ \A a, b \in StandingsTeams :
         a # b => (SortsBefore(a, b) /\ ~SortsBefore(b, a))
                    \/ (SortsBefore(b, a) /\ ~SortsBefore(a, b))
    /\ \A a, b, c \in StandingsTeams :
         SortsBefore(a, b) /\ SortsBefore(b, c) => SortsBefore(a, c)

\* The number of fixtures of the stored schedule.
FixtureTotal == SumSeq([ r \in 1..Len(schedule[1]) |-> Len(schedule[1][r]) ])

NotEligible == { ErrGroupStage, ErrFourTeams }

\* C9: generateBracket on a tournament without a bracket returns NotEligible
\* and changes no stored state whenever the ledger has fewer results than
\* the schedule has fixtures or fewer than 4 teams have standings entries.
C9_NotEligible ==
  [][ ( /\ last'.op = "playoff"
        /\ HasData
        /\ schedule # None
        /\ data[1].knockout = None
        /\ \/ Len(Results) < FixtureTotal
           \/ Cardinality(StandingsTeams) < 4 )
      =>
      /\ last'.error \in NotEligible
      /\ last'.returned = None
      /\ data' = data
      /\ schedule' = schedule
    ]_vars

\* A rejection for fewer than four teams although every fixture has a result.
C9_Witness ==
  /\ HasData
  /\ last.op = "playoff"
  /\ last.error = ErrFourTeams
  /\ data[1].knockout = None
  /\ Len(Results) >= FixtureTotal
  /\ Cardinality(StandingsTeams) = 2

GroupStageComplete ==
  /\ Len(Results) = FixtureTotal
  /\ \A i \in 1..Len(Fixtures) : \E j \in 1..Len(Results) : Results[j].id = Fixtures[i].id

\* C10: generateBracket creates a bracket only in a state where the number
\* of ledger results equals the number of fixtures and every scheduled
\* fixture has a result in the ledger; in every other state it is rejected.
C10_BracketOnlyWhenComplete ==
  [][ ( /\ last'.op = "playoff"
        /\ HasData
        /\ schedule # None
        /\ data[1].knockout = None )
      =>
      /\ data'[1].knockout # None => GroupStageComplete
      /\ ~GroupStageComplete => last'.error # "" /\ data'[1].knockout = None
    ]_vars

\* C11: once a bracket exists, generateBracket returns the stored bracket
\* without error and leaves bracket, ledger, standings and schedule as they
\* are; it does not seed again.
C11_GenerateIdempotent ==
  [][ ( /\ last'.op = "playoff"
        /\ HasData
        /\ schedule # None
        /\ data[1].knockout # None )
      =>
      /\ last'.error = ""
      /\ last'.returned = data[1].knockout
      /\ data' = data
      /\ schedule' = schedule
    ]_vars

\* What generatePlayoff would seed from the standings as they are now.
SeededNow == generatePlayoff(schedule, Some([ data[1] EXCEPT !.knockout = None ])).knockout

\* A further call that returned the stored bracket after the standings had
\* changed so much that seeding now would pair the teams differently.
C11_Witness ==
  /\ HasData
  /\ last.op = "playoff"
  /\ last.error = ""
  /\ data[1].knockout # None
  /\ last.returned = data[1].knockout
  /\ SeededNow # None
  /\ SeededNow # data[1].knockout

\* Team u does not rank above team t.
NotAbove(u, t) == ~SortsBefore(u, t)

\* C12: a bracket that generateBracket creates has exactly the semi-finals
\* sf1 = (t1, t4) and sf2 = (t2, t3), t1..t4 being the first four teams of
\* the standings under the ranking comparator, and a final without teams;
\* no match has scores or a winner.
C12_Seeding ==
  [][ ( /\ last'.op = "playoff"
        /\ HasData
        /\ data[1].knockout = None
        /\ data'[1].knockout # None )
      =>
      LET k   == data'[1].knockout[1]
          top == << k.semiFinals[1].home, k.semiFinals[2].home,
                    k.semiFinals[2].away, k.semiFinals[1].away >>
      IN  /\ Len(k.semiFinals) = 2
          /\ k.semiFinals[1].id = "sf1"
          /\ k.semiFinals[2].id = "sf2"
          /\ k.final.id = "final"
          /\ Range(top) \subseteq StandingsTeams
          /\ Distinct(top)
          /\ \A i, j \in 1..4 : i < j => NotAbove(top[j], top[i])
          /\ \A u \in StandingsTeams \ Range(top) : \A i \in 1..4 : NotAbove(u, top[i])
          /\ k.final.home = JsNull
          /\ k.final.away = JsNull
          /\ \A m \in { k.semiFinals[1], k.semiFinals[2], k.final } :
               m.homeScore = None /\ m.awayScore = None /\ m.winner = JsNull
    ]_vars

\* A bracket just seeded whose first two seeds have equal points and are
\* told apart by the goal difference.
C12_Witness ==
  /\ HasData
  /\ last.op = "playoff"
  /\ last.error = ""
  /\ data[1].knockout # None
  /\ SeededNow = data[1].knockout
  /\ LET k == data[1].knockout[1]
         a == Scoreboard.rec[k.semiFinals[1].home]
         b == Scoreboard.rec[k.semiFinals[2].home]
     IN  a.points = b.points /\ a.goalDifference > b.goalDifference /\ a.goalsFor = b.goalsFor

\* The text of a non-negative integer: digits only.
NonNegativeIntegerText(text) == text # <<>> /\ \A i \in 1..Len(text) : IsDigit(text[i])

ValidationErrors == { ErrInvalidTeams, ErrScores }

C19_TeamsAndLedgerValidated ==
  [][ (last'.op = "upsert")
      =>
      /\ ~HasData => last'.error = ErrNoScoreboard /\ data' = data /\ schedule' = schedule
      /\ ( /\ HasData
           /\ \/ last'.req.home = ""
              \/ last'.req.away = ""
              \/ last'.req.home = last'.req.away )
         => last'.error = ErrInvalidTeams /\ data' = data /\ schedule' = schedule
    ]_vars

\* A payload with home = away was rejected on a tournament that has results
\* and a bracket.
C19_Witness ==
  /\ HasData
  /\ last.op = "upsert"
  /\ last.req.home = last.req.away
  /\ last.error = ErrInvalidTeams
  /\ Len(Results) >= 1
  /\ data[1].knockout # None

\* C20: across upsertResult calls a team that had a logo in the standings
\* before the call has the same logo after it.
C20_LogosKept ==
  [][ (last'.op = "upsert" /\ HasData)
      =>
      \A t \in StandingsTeams :
        Truthy(Scoreboard.rec[t].logo) =>
          /\ HasKey(data'[1].scoreboard, t)
          /\ data'[1].scoreboard.rec[t].logo = Scoreboard.rec[t].logo
    ]_vars

\* A resubmission on a tournament in which one team has a logo and a result,
\* and another team has no logo.
C20_Witness ==
  /\ HasData
  /\ UpsertAccepted(last)
  /\ last.existingIndex # -1
  /\ \E t \in StandingsTeams : Truthy(Scoreboard.rec[t].logo) /\ Scoreboard.rec[t].played = 2
  /\ \E t \in StandingsTeams : Scoreboard.rec[t].logo = JsNull

\* ---------------------------------------- properties of the knockout stage

Bracket == data[1].knockout[1]

HasBracket == HasData /\ data[1].knockout # None

\* The match of a bracket with the given id, one of sf1, sf2 and final.
MatchOf(knockout, id) ==
  IF id = "final" THEN knockout.final
  ELSE IF id = "sf1" THEN knockout.semiFinals[1] ELSE knockout.semiFinals[2]

MatchIds == { "sf1", "sf2", "final" }

\* The step is a recordKnockoutResult that succeeded.
KnockoutRecorded == last'.op = "knockout" /\ last'.error = ""

\* C13: after every successful recordKnockoutResult on sf1, sf2 or final the
\* winner of that match is a team of the match: the home team when
\* homeScore > awayScore, the away team when homeScore < awayScore, the home
\* team on a draw.
C13_WinnerIsTeamOfMatch ==
  [][ (KnockoutRecorded /\ last'.req.id \in MatchIds)
      =>
      LET m == MatchOf(data'[1].knockout[1], last'.req.id)
          h == m.homeScore[1]
          a == m.awayScore[1]
      IN  /\ m.winner # JsNull
          /\ m.winner \in { m.home, m.away }
          /\ h > a => m.winner = m.home
          /\ h < a => m.winner = m.away
          /\ h = a => m.winner = m.home
    ]_vars

BothDecided(knockout) ==
  knockout.semiFinals[1].winner # JsNull /\ knockout.semiFinals[2].winner # JsNull

FinalUnset(knockout) == knockout.final.home = JsNull /\ knockout.final.away = JsNull

\* C14: a recordKnockoutResult on a semi-final that leaves both semi-finals
\* with a winner while the final's teams were unset sets final.home to the
\* winner of sf1 and final.away to the winner of sf2 in the same step; as
\* long as a semi-final has no winner the final's teams are null.
C14_FinalPopulated ==
  [][ /\ ( /\ KnockoutRecorded
           /\ last'.req.id \in { "sf1", "sf2" }
           /\ FinalUnset(Bracket)
           /\ BothDecided(data'[1].knockout[1]) )
         =>
         LET k == data'[1].knockout[1]
         IN  /\ k.final.home = k.semiFinals[1].winner
             /\ k.final.away = k.semiFinals[2].winner
      /\ ( /\ HasData'
           /\ data'[1].knockout # None
           /\ ~BothDecided(data'[1].knockout[1]) )
         => FinalUnset(data'[1].knockout[1])
    ]_vars

\* The second semi-final was just decided, by the away team, after the first
\* was won by its home team: the final pairs two different seeds.
C14_Witness ==
  /\ HasBracket
  /\ last.op = "knockout"
  /\ last.error = ""
  /\ last.req.id = "sf2"
  /\ Bracket.semiFinals[1].winner = Bracket.semiFinals[1].home
  /\ Bracket.semiFinals[2].winner = Bracket.semiFinals[2].away
  /\ Bracket.final.home = Bracket.semiFinals[1].winner
  /\ Bracket.final.away = Bracket.semiFinals[2].winner
  /\ Bracket.final.winner = JsNull

\* C15: whenever the final's teams are set, final.home is the current winner
\* of sf1 and final.away the current winner of sf2.
C15_FinalistsAreSemiFinalWinners ==
  (HasBracket /\ ~FinalUnset(Bracket))
  => /\ Bracket.final.home = Bracket.semiFinals[1].winner
     /\ Bracket.final.away = Bracket.semiFinals[2].winner

\* C16: recordKnockoutResult on a bracket with a homeScore or awayScore that
\* is not a non-negative integer fails with the validation error and leaves
\* the stored data as they are.
C16_KnockoutScoresValidated ==
  [][ ( /\ last'.op = "knockout"
        /\ HasBracket
        /\ \/ ~NonNegativeIntegerText(last'.req.homeScore)
           \/ ~NonNegativeIntegerText(last'.req.awayScore) )
      =>
      /\ last'.error = ErrKnockoutPayload
      /\ data' = data
    ]_vars

NotFoundErrors == { ErrNoKnockout, ErrNoMatch }

\* C17 as stated: recordKnockoutResult fails with a not-found error and
\* changes nothing when there is no bracket, and when there is one and the
\* id is none of sf1, sf2, final.
C17_NotFound ==
  [][ ( /\ last'.op = "knockout"
        /\ \/ ~HasBracket
           \/ last'.req.id \notin MatchIds )
      =>
      /\ last'.error \in NotFoundErrors
      /\ data' = data
      /\ schedule' = schedule
    ]_vars

\* The score passes the validation of recordKnockoutResult.
PassesValidation(text) == ~isNaN(parseInt(text)) /\ parseInt(text)[1] >= 0

\* C17, amended: recordKnockoutResult changes nothing and fails with the
\* no-bracket error when there is no bracket; with the match-not-found
\* error when there is a bracket, the id is non-empty and none of sf1, sf2,
\* final, and both scores pass the validation; and with the validation
\* error when there is a bracket and the id is empty, or is none of sf1, sf2,
\* final while a score fails the validation.
C17_NotFoundAmended ==
  [][ ( /\ last'.op = "knockout"
        /\ \/ ~HasBracket
           \/ last'.req.id \notin MatchIds )
      =>
      /\ data' = data
      /\ schedule' = schedule
      /\ last'.error =
           IF ~HasBracket THEN ErrNoKnockout
           ELSE IF /\ last'.req.id # ""
                   /\ PassesValidation(last'.req.homeScore)
                   /\ PassesValidation(last'.req.awayScore)
                THEN ErrNoMatch
                ELSE ErrKnockoutPayload
    ]_vars

\* A request for sf3 was answered with match-not-found on a bracket whose
\* first semi-final is decided.
C17_Witness ==
  /\ HasBracket
  /\ last.op = "knockout"
  /\ last.req.id = "sf3"
  /\ last.error = ErrNoMatch
  /\ Bracket.semiFinals[1].winner # JsNull

\* The teams of the two semi-finals.
Pairings(knockout) ==
  << knockout.semiFinals[1].home, knockout.semiFinals[1].away,
     knockout.semiFinals[2].home, knockout.semiFinals[2].away >>

\* C21: once the bracket exists it stays: it never becomes null again, the
\* teams of sf1 and sf2 never change, and a step that is not a
\* recordKnockoutResult (an upsertResult, a generateBracket) leaves the whole
\* bracket as it is.
C21_BracketStays ==
  [][ HasBracket
      =>
      /\ data' # None
      /\ data'[1].knockout # None
      /\ Pairings(data'[1].knockout[1]) = Pairings(Bracket)
      /\ last'.op # "knockout" => data'[1].knockout = data[1].knockout
    ]_vars

\* An accepted upsertResult on a tournament whose bracket has a decided
\* semi-final changed the standings so that seeding now would pair the teams
\* differently; the bracket has the pairings it had.
C21_Witness ==
  /\ HasBracket
  /\ UpsertAccepted(last)
  /\ Bracket.semiFinals[1].winner # JsNull
  /\ SeededNow # None
  /\ Pairings(SeededNow[1]) # Pairings(Bracket)

\* NoBracket = 0, Seeded = 1, SemiFinalsInProgress = 2, FinalPending = 3,
\* Complete = 4, derived from the stored bracket.
KnockoutState(d) ==
  IF d = None THEN 0
  ELSE IF d[1].knockout = None THEN 0
  ELSE LET k == d[1].knockout[1]
           winners == Cardinality({ i \in 1..2 : k.semiFinals[i].winner # JsNull })
       IN  IF k.final.winner # JsNull THEN 4 ELSE winners + 1

\* C22: the knockout state derived from the bracket never moves to an
\* earlier state, moves at most to the next state in one operation, and
\* Complete is absorbing; a final with a winner has two decided semi-finals.
C22_StateMovesForward ==
  [][ /\ KnockoutState(data') >= KnockoutState(data)
      /\ KnockoutState(data') <= KnockoutState(data) + 1
      /\ KnockoutState(data) = 4 => KnockoutState(data') = 4
      /\ KnockoutState(data') = 4 => BothDecided(data'[1].knockout[1])
    ]_vars

\* A semi-final was recorded again, with a draw, after the final was won.
C22_Witness ==
  /\ HasBracket
  /\ KnockoutState(data) = 4
  /\ last.op = "knockout"
  /\ last.error = ""
  /\ last.req.id = "sf1"
  /\ Bracket.semiFinals[1].homeScore = Bracket.semiFinals[1].awayScore

\* The upsertResult payloads that are retried: those of the knockout stage,
\* the fixture with another score, without an id, and rejected ones.
RetriedResultPayloads ==
  KnockoutStageResultPayloads
    \cup { ResultPayload("r0-m0", "A", "B", << <<"0">>, <<"1">> >>),
           ResultPayload("", "A", "B", << <<"0">>, <<"0">> >>),
           ResultPayload("x", "A", "B", << <<"1", ".", "5">>, <<"1", "a">> >>),
           ResultPayload("x", "Y", "Z", << <<"-", "1">>, <<"0">> >>) }

\* C27: in every reachable state, the same upsertResult payload applied
\* twice in a row gives the answer and the stored data (ledger in content
\* and order, standings, bracket) of applying it once, and so does the same
\* recordKnockoutResult payload.
C27_RetryIsSafe ==
  /\ \A payload \in RetriedResultPayloads :
       LET once  == updateMatchResult(data, payload)
           twice == updateMatchResult(once.data, payload)
       IN  twice.data = once.data /\ twice.error = once.error
  /\ \A payload \in KnockoutPayloads :
       LET once  == updateKnockout(data, payload)
           twice == updateKnockout(once.data, payload)
       IN  twice.data = once.data /\ twice.error = once.error

\* The state after an accepted upsertResult that replaced a result which was
\* not the last of a ledger of two, with a bracket: sending the payload
\* again stores the same data.
C27_Witness ==
  /\ HasBracket
  /\ UpsertAccepted(last)
  /\ Len(Results) = 2
  /\ last.existingIndex = 0
  /\ updateMatchResult(data, last.req).data = data

\* C28: upsertResult, generateBracket and recordKnockoutResult leave the
\* schedule as it is, whether they succeed or fail.
C28_ScheduleWrittenOnce ==
  [][ last'.op \in { "upsert", "playoff", "knockout" } => schedule' = schedule ]_vars

\* A bracket was generated and a knockout result recorded; the schedule is
\* the one generateSchedule made for the teams at creation.
C28_Witness ==
  /\ HasBracket
  /\ last.op = "knockout"
  /\ last.error = ""
  /\ schedule = Some(generateSchedule(<<"A", "B">>))

\* C29: generateBracket and recordKnockoutResult leave the ledger and every
\* team record of the standings as they are, whether they succeed or fail.
C29_KnockoutLeavesGroupStage ==
  [][ (last'.op \in { "playoff", "knockout" } /\ HasData)
      =>
      /\ data' # None
      /\ data'[1].results = data[1].results
      /\ data'[1].scoreboard = data[1].scoreboard
    ]_vars

\* The final was won on a tournament with two results in its ledger.
C29_Witness ==
  /\ HasBracket
  /\ last.op = "knockout"
  /\ last.error = ""
  /\ last.req.id = "final"
  /\ Bracket.final.winner # JsNull
  /\ Len(Results) = 2

\* ------------------------------------------ properties of the registry

\* The id a request works on: the id in its path, or the id its creation
\* returned; "" for a creation that was rejected.
TargetId(l) ==
  IF l.op = "create" THEN (IF l.returned = None THEN "" ELSE l.returned[1])
  ELSE l.req.tid

\* What GET /tournaments/:id/schedule and /scoreboard answer for id.
TournamentState(files, id) ==
  [ schedule |-> loadSchedule(files, id), data |-> loadScoreboard(files, id) ]

\* C24: a request on one tournament id, and a creation, leave schedule,
\* ledger, standings and bracket of every tournament with another id as they
\* are.
C24_TournamentsIsolated ==
  [][ last'.op \in { "create", "upsert", "playoff", "knockout" }
      =>
      \A id \in IdPool :
        id # TargetId(last') =>
          TournamentState(store', id) = TournamentState(store, id)
    ]_vars

\* A semi-final was recorded for one tournament while another one, with
\* another id, has a result and no bracket.
C24_Witness ==
  /\ last.op = "knockout"
  /\ last.error = ""
  /\ \E id \in IdPool :
       /\ id # TargetId(last)
       /\ loadScoreboard(store, id) # None
       /\ Len(loadScoreboard(store, id)[1].results) = 1
       /\ loadScoreboard(store, id)[1].knockout = None

\* C25: no two entries of the registry have the same id (any two
\* tournaments created receive different ids).
C25_IdsDistinct ==
  \A i, j \in 1..Len(registry) : i # j => registry[i].id # registry[j].id

\* The team names of a creation payload that are non-empty after trimming.
ValidNameCount(teams) ==
  Cardinality({ i \in 1..Len(teams) : Trim(teams[i].name) # "" })

\* C30: a creation with fewer than two team names that are non-empty after
\* trimming is rejected with an error and writes no schedule, no
\* ledger or standings and no registry entry.
C30_TooFewTeamsRejected ==
  [][ (last'.op = "create" /\ ValidNameCount(last'.req.teams) < 2)
      =>
      /\ last'.error \in { ErrNameAndTeams, ErrTwoValidNames }
      /\ store' = store
      /\ registry' = registry
    ]_vars

\* A creation with two teams of which one name is blank was rejected while
\* the registry holds a tournament.
C30_Witness ==
  /\ last.op = "create"
  /\ Len(last.req.teams) = 2
  /\ last.error = ErrTwoValidNames
  /\ Len(registry) = 1
  /\ store[getTournamentDir(registry[1].id)].data # None

\* --------------------------------------- properties of concurrent requests

\* The files after the handlers of the requests ran one after another, each
\* to its end before the next.
RECURSIVE Serial(_, _)
Serial(files, requests) ==
  IF requests = <<>> THEN files
  ELSE LET res == Handler(Head(requests).op, Head(requests).body, files)
       IN  Serial([ schedule |-> res.schedule, data |-> res.data ], Tail(requests))

\* The id under which updateMatchResult files a payload.
MatchIdOf(body) == IF Truthy(body.id) THEN body.id ELSE body.home \o "-" \o body.away

\* C23: whatever the interleaving of the requests, the stored files are those
\* of handling the requests one after another in the order in which their
\* handlers ran, and no accepted update is lost: every accepted upsertResult
\* has its result in the ledger and every accepted recordKnockoutResult has
\* left scores on its match.
C23_Serializable ==
  /\ [ schedule |-> schedule, data |-> data ] = Serial(NoFiles, handled)
  /\ \A i \in 1..Len(handled) :
       handled[i].error = "" =>
         /\ handled[i].op = "upsert" =>
              \E j \in 1..Len(Results) : Results[j].id = MatchIdOf(handled[i].body)
         /\ handled[i].op = "knockout" =>
              MatchOf(Bracket, handled[i].body.id).homeScore # None

\* Two upsertResult requests with different ids arrived while the ledger was
\* empty, so the second was in flight when the first was handled; both were
\* accepted and both results are in the ledger.
C23_Witness ==
  /\ HasData
  /\ Len(Results) = 2
  /\ \E i, j \in 1..Len(handled) :
       /\ i < j
       /\ handled[i].op = "upsert" /\ handled[i].error = ""
       /\ handled[j].op = "upsert" /\ handled[j].error = ""
       /\ handled[i].seen.data # None
       /\ handled[i].seen.data[1].results = <<>>
       /\ handled[j].seen = handled[i].seen

\* ------------------------------------------------ properties of the storage

\* C26: when the save of an upsertResult, a generateBracket or a
\* recordKnockoutResult fails, the operation answers with an error: it does
\* not answer with success for a state that was not stored.
C26_SaveFailureReported ==
  ( /\ last.op \in { "upsert", "playoff", "knockout" }
    /\ fsWrite \in { "refused", "truncated" } )
  => last.error # ""

\* ------------------------------------- the participants of the bracket

FinalTeams(knockout) == << knockout.final.home, knockout.final.away >>

\* C32: the four participants of the semi-finals are pairwise distinct
\* teams in every state with a bracket; once the final's teams are set they
\* are two distinct teams, and they never change afterwards.
C32_ParticipantsDistinct ==
  [][ (data' # None /\ data'[1].knockout # None)
      =>
      LET k == data'[1].knockout[1]
      IN  /\ Distinct(Pairings(k))
          /\ JsNull \notin Range(Pairings(k))
          /\ ~FinalUnset(k) =>
               /\ k.final.home # JsNull
               /\ k.final.away # JsNull
               /\ k.final.home # k.final.away
          /\ (HasBracket /\ ~FinalUnset(Bracket)) => FinalTeams(k) = FinalTeams(Bracket)
    ]_vars

\* The first semi-final was recorded again, for its other team, after the
\* final's teams were set.
C32_Witness ==
  /\ HasBracket
  /\ ~FinalUnset(Bracket)
  /\ last.op = "knockout"
  /\ last.error = ""
  /\ last.req.id = "sf1"
  /\ Bracket.semiFinals[1].winner # Bracket.final.home

\* C33: a final with a winner has two decided semi-finals and two teams, and
\* its winner is one of the two; the winner of a semi-final, when there is
\* one, is its home or its away team.
C33_WinnersAreParticipants ==
  HasBracket
  => /\ Bracket.final.winner # JsNull =>
          /\ BothDecided(Bracket)
          /\ Bracket.final.home # JsNull
          /\ Bracket.final.away # JsNull
          /\ Bracket.final.winner \in { Bracket.final.home, Bracket.final.away }
     /\ \A i \in 1..2 :
          Bracket.semiFinals[i].winner # JsNull =>
            Bracket.semiFinals[i].winner
              \in { Bracket.semiFinals[i].home, Bracket.semiFinals[i].away }

\* The final was won by its away team after both semi-finals were decided.
C33_Witness ==
  /\ HasBracket
  /\ last.op = "knockout"
  /\ last.req.id = "final"
  /\ Bracket.final.winner # JsNull
  /\ Bracket.final.winner = Bracket.final.away
  /\ BothDecided(Bracket)

\* ------------------------------------------ seeding and the standings

\* The teams the tournament was created with: those of its schedule.
ScheduleTeams ==
  { Fixtures[i].home : i \in 1..Len(Fixtures) } \cup { Fixtures[i].away : i \in 1..Len(Fixtures) }

\* The step creates the bracket.
BracketCreated ==
  /\ last'.op = "playoff"
  /\ HasData
  /\ data[1].knockout = None
  /\ data'[1].knockout # None

\* C34 as stated: every team seeded into a semi-final is a team of the
\* schedule.
C34_SeedsAreScheduleTeams ==
  [][ BracketCreated => Range(Pairings(data'[1].knockout[1])) \subseteq ScheduleTeams ]_vars

\* The teams named by the upsertResult payloads.
PayloadTeams == { p.home : p \in ResultPayloads } \cup { p.away : p \in ResultPayloads }

\* C34, amended: every team seeded into a semi-final is a team of the
\* standings at the time of the seeding, and a team of the standings is a
\* team of the schedule or a team named as home or away by an upsertResult.
C34_SeedsAreStandingsTeams ==
  [][ BracketCreated
      =>
      /\ Range(Pairings(data'[1].knockout[1])) \subseteq StandingsTeams
      /\ StandingsTeams \subseteq ScheduleTeams \cup PayloadTeams
    ]_vars

\* A bracket was seeded with two teams of the schedule and two teams that
\* only results brought into the standings.
C34_Witness ==
  /\ HasBracket
  /\ last.op = "playoff"
  /\ last.error = ""
  /\ SeededNow = data[1].knockout
  /\ Cardinality(Range(Pairings(Bracket)) \cap ScheduleTeams) = 2
  /\ Cardinality(Range(Pairings(Bracket)) \ ScheduleTeams) = 2

\* The orders of n things.
Orders(n) == { p \in [ 1..n -> 1..n ] : \A i, j \in 1..n : i # j => p[i] # p[j] }

Reordered(results, p) == [ i \in 1..Len(results) |-> results[p[i]] ]

\* C35: the team records that upsertResult computes from a ledger are the
\* same for every order of the entries of the ledger.
C35_OrderIndependent ==
  HasData
  => \A p \in Orders(Len(Results)) :
       Recompute(Scoreboard, Reordered(Results, p)).rec = Recompute(Scoreboard, Results).rec

\* A result that was not the last of a ledger of three was resubmitted and
\* moved to the end; a team has two results with different goals.
C35_Witness ==
  /\ HasData
  /\ UpsertAccepted(last)
  /\ Len(Results) = 3
  /\ last.existingIndex = 0
  /\ \E i, j \in 1..3 :
       /\ i # j
       /\ Results[i].home = Results[j].home
       /\ Results[i].homeScore # Results[j].homeScore

\* C37: on a tournament without a bracket, with the client holding the
\* schedule and scoreboard data of the server, the client displays the
\* generate-playoff button exactly when a generate-playoff request would
\* succeed.
C37_ButtonAgreesWithServer ==
  (HasData /\ schedule # None /\ data[1].knockout = None)
  => ( ShowsGenerateButton(schedule, computeMatchCount(schedule), data)
       <=> generatePlayoff(schedule, data).error = "" )

\* ------------------------------------------------- the teams of a schedule

\* C31: no stored schedule has a fixture whose home team is its away team,
\* so that upsertResult accepts a result for every scheduled fixture.
C31_NoSelfFixture ==
  \A id \in IdPool :
    loadSchedule(store, id) # None =>
      LET fixtures == Flatten(loadSchedule(store, id)[1])
      IN  \A i \in 1..Len(fixtures) :
            /\ fixtures[i].home # fixtures[i].away
            /\ ~InvalidTeams(ResultPayload(fixtures[i].id, fixtures[i].home,
                                           fixtures[i].away, << <<"1">>, <<"0">> >>))

\* ------------------------------------------------- properties of the page

\* C36: the schedule and scoreboard data the page holds are those of the
\* tournament that is open, or none: never those of a tournament opened
\* before, and none after the return to the list.
C36_NoStaleData ==
  /\ currentTournamentId = JsNull => scheduleData = None /\ scoreboardData = None
  /\ currentTournamentId # JsNull =>
       /\ scheduleData \in { None, Served(currentTournamentId).schedule }
       /\ scoreboardData \in { None, Served(currentTournamentId).data }

====
